---- MODULE Spec2Model ----
(***************************************************************************)
(* Model of list_can_ids.py: the MF4 CAN ID inspector.                     *)
(*                                                                         *)
(* One call of list_can_ids(mf4_file, dbc_file, output_csv, sort_key) is a *)
(* sequential pipeline; pc is the position in it.  The arguments (args)    *)
(* and what the file system and the two decoding libraries answer (env)    *)
(* are drawn in Init and never change.  Text is a sequence of one-character*)
(* strings, so that formatting, substring search and comparison are        *)
(* computed rather than assumed.                                           *)
(***************************************************************************)
EXTENDS Integers, Sequences, FiniteSets, TLC

VARIABLES
    args,         \* the call's arguments: mf4_file, dbc_file, output_csv, sort_key
    env,          \* what the libraries and the file system answer during the call
    pc,           \* position in list_can_ids
    mdf,          \* the container handle: "none", or "open" once MDF() returned
    group_index,  \* position of the outer loop (1-based)
    i,            \* position of the inner loop (1-based)
    all_ids,      \* the set of identifiers collected so far
    db,           \* the loaded database, or NoDb
    rows,         \* the list of row dicts
    output_csv,   \* the local output_csv (reassigned when it is "")
    out,          \* the lines printed so far
    csvfile,      \* the export handle: "none", "open" or "closed"
    disk,         \* the export file as it is on disk
    error,        \* which step raised into the top-level handler, or "none"
    exit          \* "running", "returned" or "raised"

vars == <<args, env, pc, mdf, group_index, i, all_ids, db, rows, output_csv,
          out, csvfile, disk, error, exit>>

---------------------------------------------------------------------------
(* Python values *)

\* Optional text: None, or a str
None == [some |-> FALSE, val |-> <<>>]
Some(s) == [some |-> TRUE, val |-> s]

\* bool(x) of an Optional[str]: None and "" are falsy
Truthy(x) == x.some /\ x.val # <<>>

RECURSIVE BitAnd(_, _)
\* a & b on non-negative integers
BitAnd(a, b) ==
    IF a = 0 \/ b = 0 THEN 0
    ELSE (a % 2) * (b % 2) + 2 * BitAnd(a \div 2, b \div 2)

\* a >> n on non-negative integers
ShiftRight(a, n) == a \div (2 ^ n)

HexDigit(d) == <<"0", "1", "2", "3", "4", "5", "6", "7",
                 "8", "9", "A", "B", "C", "D", "E", "F">>[d + 1]

RECURSIVE FormatX(_)
\* format(n, "X") for n >= 0
FormatX(n) ==
    IF n < 16 THEN <<HexDigit(n)>>
    ELSE FormatX(n \div 16) \o <<HexDigit(n % 16)>>

\* ord(c) for the characters that occur in message names
Ord(c) ==
    CASE c = "A" -> 65 [] c = "B" -> 66 [] c = "Z" -> 90
      [] c = "a" -> 97 [] c = "b" -> 98

RECURSIVE StrLess(_, _)
\* a < b on str: lexicographic by code point, a proper prefix first
StrLess(a, b) ==
    IF b = <<>> THEN FALSE
    ELSE IF a = <<>> THEN TRUE
    ELSE IF Head(a) # Head(b) THEN Ord(Head(a)) < Ord(Head(b))
    ELSE StrLess(Tail(a), Tail(b))

\* needle in hay, on str
Contains(needle, hay) ==
    \E k \in 0..(Len(hay) - Len(needle)) :
        SubSeq(hay, k + 1, k + Len(needle)) = needle

\* int(sample): a sample is a number given in halves (5 is 2.5) or NaN;
\* int() truncates toward zero and raises ValueError on NaN
IntRaises(sample) == sample.nan
ToInt(sample) == sample.halves \div 2

RECURSIVE Sorted(_)
\* sorted(S) of a set of integers
Sorted(S) ==
    IF S = {} THEN <<>>
    ELSE LET m == CHOOSE x \in S : \A y \in S : x <= y
         IN  <<m>> \o Sorted(S \ {m})

---------------------------------------------------------------------------
(* The program *)

NoDb == [some |-> FALSE, msgs |-> <<>>]

\* load_dbc without its try: the failure reaches the caller
load_dbc_unguarded(dbc) ==
    IF dbc.ok
    THEN [raised |-> FALSE, db |-> [some |-> TRUE, msgs |-> dbc.msgs],
          printed |-> "dbc_loaded"]
    ELSE [raised |-> TRUE, db |-> NoDb, printed |-> "dbc_failed"]

\* load_dbc: the database and the success line, or, the exception caught,
\* the failure line and None; nothing is raised to the caller
load_dbc(dbc) ==
    IF dbc.ok
    THEN [raised |-> FALSE, db |-> [some |-> TRUE, msgs |-> dbc.msgs],
          printed |-> "dbc_loaded"]
    ELSE [raised |-> FALSE, db |-> NoDb, printed |-> "dbc_failed"]

\* calculate_pgn with the PGN tested as a number: a PGN of 0 is taken for none
calculate_pgn_zero_is_none(can_id) ==
    IF can_id <= 2047 \/ BitAnd(ShiftRight(can_id, 8), 262143) = 0 THEN None
    ELSE Some(<<"0", "x">> \o FormatX(BitAnd(ShiftRight(can_id, 8), 262143)))

\* calculate_pgn: None for an 11-bit id, else "0x" and the PGN in upper-case hex
calculate_pgn(can_id) ==
    IF can_id <= 2047 THEN None
    ELSE Some(<<"0", "x">> \o FormatX(BitAnd(ShiftRight(can_id, 8), 262143)))

\* The name test without regard to case
QualifiesAnyCase(channel) ==
    \E k \in 1..(Len(channel.name) - 2) :
        /\ channel.name[k] = "."
        /\ channel.name[k + 1] \in {"I", "i"}
        /\ channel.name[k + 2] \in {"D", "d"}

\* ".ID" in channel.name
Qualifies(channel) == Contains(<<".", "I", "D">>, channel.name)

\* The samples added one at a time: those before the failing one stay
CollectOneByOne(ids, channel) ==
    IF channel.get_raises THEN ids
    ELSE ids \cup {ToInt(channel.samples[k]) :
                     k \in {j \in DOMAIN channel.samples :
                              \A m \in 1..j : ~IntRaises(channel.samples[m])}}

\* The try block of the scan: mdf.get and set(map(int, samples)) either both
\* succeed, and the set is merged, or one raises and the channel is skipped
Collect(ids, channel) ==
    IF channel.get_raises
       \/ \E k \in DOMAIN channel.samples : IntRaises(channel.samples[k])
    THEN ids
    ELSE ids \cup {ToInt(channel.samples[k]) : k \in DOMAIN channel.samples}

\* db.get_message_by_frame_id(cid) under "if db", "if msg" and the bare except
MessageName(database, cid) ==
    IF ~database.some THEN <<>>
    ELSE IF cid \notin DOMAIN database.msgs THEN <<>>     \* KeyError, swallowed
    ELSE IF database.msgs[cid].falsy THEN <<>>
    ELSE database.msgs[cid].name

IdType(cid) == IF cid > 2047 THEN "Extended (29-bit)" ELSE "Standard (11-bit)"

\* One row dict
Row(database, cid) ==
    [hex  |-> <<"0", "x">> \o FormatX(cid),
     dec  |-> cid,
     type |-> IdType(cid),
     pgn  |-> LET pgn == calculate_pgn(cid) IN IF Truthy(pgn) THEN pgn.val ELSE <<>>,
     name |-> MessageName(database, cid)]

\* The id key compared the wrong way round
IdKeyGreater(x, y) == x.dec > y.dec

\* The name key compared without regard to case
NameKeyLessAnyCase(x, y) ==
    LET fold(c) == IF c = "a" THEN "A" ELSE IF c = "b" THEN "B" ELSE c
    IN  StrLess([k \in DOMAIN x.name |-> fold(x.name[k])],
                [k \in DOMAIN y.name |-> fold(y.name[k])])

\* The two sort keys, compared with <
NameKeyLess(x, y) == StrLess(x.name, y.name)
IdKeyLess(x, y) == x.dec < y.dec

\* key(x) < key(y) under the sort key: "name" selects the name, anything
\* else the decimal id
KeyLess(sort_key, x, y) ==
    IF sort_key = "name" THEN NameKeyLess(x, y) ELSE IdKeyLess(x, y)

RECURSIVE InsertRow(_, _, _)
\* x placed before the first row that is greater: list.sort is stable
InsertRow(sort_key, sorted, x) ==
    IF sorted = <<>> THEN <<x>>
    ELSE IF KeyLess(sort_key, x, Head(sorted)) THEN <<x>> \o sorted
    ELSE <<Head(sorted)>> \o InsertRow(sort_key, Tail(sorted), x)

RECURSIVE SortRows(_, _)
\* rows.sort(key=...)
SortRows(rs, sort_key) ==
    IF rs = <<>> THEN <<>>
    ELSE InsertRow(sort_key, SortRows(SubSeq(rs, 1, Len(rs) - 1), sort_key), rs[Len(rs)])

\* os.path.basename
Basename(p) ==
    LET slashes == {k \in DOMAIN p : p[k] = "/"}
        last == IF slashes = {} THEN 0 ELSE CHOOSE k \in slashes : \A m \in slashes : m <= k
    IN  SubSeq(p, last + 1, Len(p))

\* os.path.splitext(b)[0] of a name without directory: cut at the last dot,
\* unless only dots precede it
SplitextRoot(b) ==
    LET dots == {k \in DOMAIN b : b[k] = "."}
        last == IF dots = {} THEN 0 ELSE CHOOSE k \in dots : \A m \in dots : m <= k
    IN  IF last > 0 /\ \E k \in 1..(last - 1) : b[k] # "."
        THEN SubSeq(b, 1, last - 1)
        ELSE b

\* f"{base}_can_ids.csv"
AutoName(mf4_file) ==
    SplitextRoot(Basename(mf4_file))
        \o <<"_", "c", "a", "n", "_", "i", "d", "s", ".", "c", "s", "v">>

\* The header DictWriter writes: the keys of a row dict in insertion order
FieldNames == <<"CAN_ID (Hex)", "CAN_ID (Dec)", "Type", "PGN", "Message Name">>

\* One written line of the export
CsvRow(r) == <<r.hex, r.dec, r.type, r.pgn, r.name>>

\* A printed line
TextLine(kind) == [kind |-> kind, hex |-> <<>>, type |-> "", name |-> <<>>, pgn |-> <<>>]
RowLine(r) == [kind |-> "row", hex |-> r.hex, type |-> r.type, name |-> r.name, pgn |-> r.pgn]

\* A handler that reports nothing and lets the exception go on
HandlerReraises(e) == [printed |-> <<>>, exit |-> "raised"]

\* except Exception as e: print the error; the function then returns
Handler(e) == [printed |-> <<TextLine("error")>>, exit |-> "returned"]

Raise(e) ==
    /\ out' = out \o Handler(e).printed
    /\ exit' = Handler(e).exit
    /\ error' = e
    /\ pc' = "done"

NoFile == [exists |-> FALSE, path |-> <<>>, header |-> <<>>, rows |-> <<>>]

\* mdf = MDF(mf4_file)
OpenContainer ==
    /\ pc = "open"
    /\ IF env.mdf_ok
       THEN /\ mdf' = "open"
            /\ pc' = "scan"
            /\ UNCHANGED <<out, error, exit>>
       ELSE /\ Raise("open")
            /\ UNCHANGED mdf
    /\ UNCHANGED <<args, env, group_index, i, all_ids, db, rows, output_csv,
                   csvfile, disk>>

\* One pass of the inner loop
ScanChannel ==
    /\ pc = "scan"
    /\ group_index <= Len(env.groups)
    /\ i <= Len(env.groups[group_index])
    /\ LET channel == env.groups[group_index][i]
       IN  IF ~channel.named
           THEN /\ Raise("enumerate")
                /\ UNCHANGED <<i, all_ids>>
           ELSE /\ all_ids' = IF Qualifies(channel) THEN Collect(all_ids, channel)
                              ELSE all_ids
                /\ i' = i + 1
                /\ UNCHANGED <<pc, out, error, exit>>
    /\ UNCHANGED <<args, env, mdf, group_index, db, rows, output_csv, csvfile, disk>>

\* The inner loop ends: the next group
NextGroup ==
    /\ pc = "scan"
    /\ group_index <= Len(env.groups)
    /\ i > Len(env.groups[group_index])
    /\ group_index' = group_index + 1
    /\ i' = 1
    /\ UNCHANGED <<args, env, pc, mdf, all_ids, db, rows, output_csv, out,
                   csvfile, disk, error, exit>>

\* The empty check that prints the notice and goes on
CheckEmptyGoesOn ==
    /\ pc = "scan"
    /\ group_index > Len(env.groups)
    /\ out' = Append(out, TextLine(IF all_ids = {} THEN "notice" ELSE "heading"))
    /\ pc' = "load"
    /\ UNCHANGED <<args, env, mdf, group_index, i, all_ids, db, rows, output_csv,
                   csvfile, disk, error, exit>>

\* if not all_ids: notice and return; else the heading
CheckEmpty ==
    /\ pc = "scan"
    /\ group_index > Len(env.groups)
    /\ IF all_ids = {}
       THEN /\ out' = Append(out, TextLine("notice"))
            /\ pc' = "done"
            /\ exit' = "returned"
       ELSE /\ out' = Append(out, TextLine("heading"))
            /\ pc' = "load"
            /\ UNCHANGED exit
    /\ UNCHANGED <<args, env, mdf, group_index, i, all_ids, db, rows, output_csv,
                   csvfile, disk, error>>

\* db = load_dbc(dbc_file) if dbc_file else None
LoadDbc ==
    /\ pc = "load"
    /\ IF ~Truthy(args.dbc_file)
       THEN /\ db' = NoDb
            /\ pc' = "build"
            /\ UNCHANGED <<out, error, exit>>
       ELSE IF load_dbc(env.dbc).raised
       THEN /\ Raise("dbc")
            /\ UNCHANGED db
       ELSE /\ db' = load_dbc(env.dbc).db
            /\ out' = Append(out, TextLine(load_dbc(env.dbc).printed))
            /\ pc' = "build"
            /\ UNCHANGED <<error, exit>>
    /\ UNCHANGED <<args, env, mdf, group_index, i, all_ids, rows, output_csv,
                   csvfile, disk>>

\* for cid in sorted(all_ids): rows.append({...})
BuildRows ==
    /\ pc = "build"
    /\ rows' = LET ids == Sorted(all_ids)
               IN  [k \in 1..Len(ids) |-> Row(db, ids[k])]
    /\ pc' = "sort"
    /\ UNCHANGED <<args, env, mdf, group_index, i, all_ids, db, output_csv, out,
                   csvfile, disk, error, exit>>

\* rows.sort(key=...)
Sort ==
    /\ pc = "sort"
    /\ rows' = SortRows(rows, args.sort_key)
    /\ pc' = "print"
    /\ UNCHANGED <<args, env, mdf, group_index, i, all_ids, db, output_csv, out,
                   csvfile, disk, error, exit>>

\* for row in rows: print(printable)
PrintRows ==
    /\ pc = "print"
    /\ out' = out \o [k \in 1..Len(rows) |-> RowLine(rows[k])]
    /\ pc' = "export"
    /\ UNCHANGED <<args, env, mdf, group_index, i, all_ids, db, rows, output_csv,
                   csvfile, disk, error, exit>>

\* The destination derived from the base name with its extension left on
ExportPathKeepsExtension(csv, mf4_file) ==
    IF csv.val = <<>>
    THEN Basename(mf4_file) \o <<"_", "c", "a", "n", "_", "i", "d", "s", ".", "c", "s", "v">>
    ELSE csv.val

\* The export's destination
ExportPath(csv, mf4_file) == IF csv.val = <<>> THEN AutoName(mf4_file) ELSE csv.val

\* if output_csv is not None: name the file and open it for writing
ExportOpen ==
    /\ pc = "export"
    /\ IF ~output_csv.some
       THEN /\ pc' = "done"
            /\ exit' = "returned"
            /\ UNCHANGED <<output_csv, csvfile, disk, out, error>>
       ELSE /\ output_csv' = Some(ExportPath(output_csv, args.mf4_file))
            /\ IF env.csv = "open_raises"
               THEN /\ Raise("csv_open")
                    /\ UNCHANGED <<csvfile, disk>>
               ELSE /\ csvfile' = "open"
                    /\ disk' = [exists |-> TRUE, path |-> output_csv'.val,
                                header |-> <<>>, rows |-> <<>>]
                    /\ pc' = "write"
                    /\ UNCHANGED <<out, error, exit>>
    /\ UNCHANGED <<args, env, mdf, group_index, i, all_ids, db, rows>>

\* The body of the with block, its exit, and the closing message
ExportWrite ==
    /\ pc = "write"
    /\ csvfile' = "closed"
    /\ IF env.csv = "write_raises"
       THEN /\ Raise("csv_write")
            /\ UNCHANGED disk
       ELSE /\ disk' = [disk EXCEPT !.header = FieldNames,
                                    !.rows = [k \in 1..Len(rows) |-> CsvRow(rows[k])]]
            /\ out' = Append(out, TextLine("exported"))
            /\ pc' = "done"
            /\ exit' = "returned"
            /\ UNCHANGED error
    /\ UNCHANGED <<args, env, mdf, group_index, i, all_ids, db, rows, output_csv>>

Next ==
    \/ OpenContainer
    \/ ScanChannel
    \/ NextGroup
    \/ CheckEmpty
    \/ LoadDbc
    \/ BuildRows
    \/ Sort
    \/ PrintRows
    \/ ExportOpen
    \/ ExportWrite

---------------------------------------------------------------------------
(* Inputs *)

\* Bounds of the containers drawn for the scan
MaxChannels == 3
MaxGroups == 2
\* Every identifier up to this one is classified, besides the larger probes
MaxSmallId == 2304

Sample(h) == [nan |-> FALSE, halves |-> h]
NaN == [nan |-> TRUE, halves |-> 0]
Whole(n) == Sample(2 * n)

Channel(name, get_raises, samples) ==
    [named |-> TRUE, name |-> name, get_raises |-> get_raises, samples |-> samples]
\* A channel whose name cannot be searched: the enumeration raises there
Unnamed == [named |-> FALSE, name |-> <<>>, get_raises |-> FALSE, samples |-> <<>>]

IdName == <<"C", "A", "N", ".", "I", "D">>
IdeName == <<"t", ".", "I", "D", "E">>
LowerName == <<"C", "A", "N", ".", "I", "d">>

\* One channel holding the identifiers of S, largest first
IdChannel(S) ==
    LET up == Sorted(S)
    IN  Channel(IdName, FALSE, [k \in 1..Len(up) |-> Whole(up[Len(up) + 1 - k])])

\* The channels a scanned container is made of: values 291 and 2048 are read
\* (2048 from the sample 2048.5), 5 stands before a sample int() rejects,
\* 6 is in a channel mdf.get fails on, 7 in a channel without ".ID"
ScanChannels ==
    { Channel(IdName, FALSE, <<Whole(291), Whole(291)>>),
      Channel(IdeName, FALSE, <<Sample(4097), Whole(291)>>),
      Channel(IdName, FALSE, <<Whole(5), NaN>>),
      Channel(IdName, TRUE, <<Whole(6)>>),
      Channel(LowerName, FALSE, <<Whole(7)>>) }

\* flat cut into Len(cuts) + 1 groups at the positions cuts
Split(flat, cuts) ==
    LET at(k) == IF k = 0 THEN 0 ELSE IF k > Len(cuts) THEN Len(flat) ELSE cuts[k]
    IN  [g \in 1..(Len(cuts) + 1) |-> SubSeq(flat, at(g - 1) + 1, at(g))]

\* Every container of at most MaxChannels channels in at most MaxGroups groups
ScanContainers ==
    {<<>>} \cup
    UNION { UNION { UNION { { Split(flat, cuts) :
                              cuts \in { c \in [1..(g - 1) -> 0..n] :
                                           \A k \in 1..(g - 2) : c[k] <= c[k + 1] } } :
                            g \in 1..MaxGroups } :
                    flat \in [1..n -> ScanChannels] } :
            n \in 0..MaxChannels }

Ids == {291, 2048, 419361024}

\* Containers for the whole pipeline: empty ones, ones that yield nothing,
\* ones whose enumeration raises, and one channel per non-empty set of Ids
Containers ==
    { <<>>, << <<>> >>,
      << <<Channel(LowerName, FALSE, <<Whole(291)>>)>> >>,
      << <<Channel(IdName, TRUE, <<Whole(291)>>)>> >>,
      << <<Channel(IdName, FALSE, <<>>)>> >>,
      << <<Unnamed>> >>,
      << <<IdChannel({291})>>, <<Unnamed>> >> }
    \cup { << <<IdChannel(S)>> >> : S \in SUBSET Ids \ {{}} }

Msg(name) == [falsy |-> FALSE, name |-> name]
FalsyMsg == [falsy |-> TRUE, name |-> <<>>]

Dbc(msgs) == [ok |-> TRUE, msgs |-> msgs]
BadDbc == [ok |-> FALSE, msgs |-> <<>>]

\* Database files: one that does not load, one naming 291 and 419361024,
\* one whose lookup of 2048 answers a falsy message
Dbcs ==
    { BadDbc,
      Dbc((291 :> Msg(<<"B">>)) @@ (419361024 :> Msg(<<"A", "B">>))),
      Dbc((2048 :> FalsyMsg) @@ (291 :> Msg(<<"a">>))) }

Mf4 == <<"f", "o", "o", ".", "m", "f", "4">>
DbcPath == <<"j", ".", "d", "b", "c">>
CsvPath == <<"o", ".", "c", "s", "v">>

InitWith(Groups, MdfOk, DbcEnv, CsvEnv, Mf4Files, DbcFiles, Csvs, SortKeys) ==
    /\ env \in [groups : Groups, mdf_ok : MdfOk, dbc : DbcEnv, csv : CsvEnv]
    /\ args \in [mf4_file : Mf4Files, dbc_file : DbcFiles, output_csv : Csvs,
                 sort_key : SortKeys]
    /\ pc = "open"
    /\ mdf = "none"
    /\ group_index = 1
    /\ i = 1
    /\ all_ids = {}
    /\ db = NoDb
    /\ rows = <<>>
    /\ output_csv = args.output_csv
    /\ out = <<>>
    /\ csvfile = "none"
    /\ disk = NoFile
    /\ error = "none"
    /\ exit = "running"

\* The whole pipeline under every option and every failure
Init ==
    InitWith(Containers, BOOLEAN, Dbcs, {"ok", "open_raises", "write_raises"},
             {Mf4}, {None, Some(<<>>), Some(DbcPath)},
             {None, Some(<<>>), Some(CsvPath)}, {"id", "name"})

Spec == Init /\ [][Next]_vars

\* The scan over every small container
InitScan ==
    InitWith(ScanContainers, {TRUE}, {BadDbc}, {"ok"},
             {Mf4}, {None}, {Some(<<>>)}, {"id"})

SpecScan == InitScan /\ [][Next]_vars

\* Identifiers on both sides of 0x7FF, and extended ones up to 2^29 - 1:
\* some whose PGN is 0, some above the mask's 18 bits, the J1939 example
RecordIds ==
    (0..MaxSmallId)
    \cup {2 ^ 26 + k : k \in 0..300}
    \cup {k * 65536 + 255 : k \in 1..64}
    \cup {2 ^ 29 - 1 - k * 4099 : k \in 0..200}
    \cup {419361024}

\* One identifier through the pipeline
InitRecord ==
    InitWith({<< <<IdChannel({id})>> >> : id \in RecordIds}, {TRUE}, {BadDbc}, {"ok"},
             {Mf4}, {None}, {Some(<<>>)}, {"id"})

SpecRecord == InitRecord /\ [][Next]_vars

\* What a lookup of one id may answer; an id outside the database raises
Names == { <<>>, <<"A">>, <<"A", "B">>, <<"Z">>, <<"a">> }
Databases ==
    UNION { [D -> {FalsyMsg} \cup {Msg(n) : n \in Names}] : D \in SUBSET Ids }

\* Every database over Ids, every set of Ids, every sort key
InitSort ==
    InitWith({<< <<IdChannel(S)>> >> : S \in SUBSET Ids \ {{}}}, {TRUE},
             {Dbc(m) : m \in Databases}, {"ok"},
             {Mf4}, {Some(DbcPath)}, {Some(CsvPath)}, {"id", "name", "pgn"})

SpecSort == InitSort /\ [][Next]_vars

\* Container paths: plain, in a directory, with a dot in the directory only,
\* with two dots, starting with a dot, ending with a dot
Mf4Files ==
    { Mf4,
      <<"d", "/", "f", "o", "o", ".", "m", "f", "4">>,
      <<"a", ".", "b", "/", "c">>,
      <<"d", "/", "a", ".", "b", ".", "M", "F", "4">>,
      <<".", "m", "f", "4">>,
      <<"l", "o", "g", ".">> }

\* Every way the export is asked for and ends
InitExport ==
    InitWith({<<>>, << <<IdChannel({291})>>, <<Unnamed>> >>}
                 \cup {<< <<IdChannel(S)>> >> : S \in SUBSET Ids \ {{}}},
             BOOLEAN, Dbcs \ {BadDbc}, {"ok", "open_raises", "write_raises"},
             Mf4Files, {None, Some(DbcPath)},
             {None, Some(<<>>), Some(CsvPath)}, {"id", "name"})

SpecExport == InitExport /\ [][Next]_vars

---------------------------------------------------------------------------
(* Properties *)

\* The identifier a row, a printed line or an exported line shows in hex
HexVal(c) ==
    CASE c = "0" -> 0 [] c = "1" -> 1 [] c = "2" -> 2 [] c = "3" -> 3
      [] c = "4" -> 4 [] c = "5" -> 5 [] c = "6" -> 6 [] c = "7" -> 7
      [] c = "8" -> 8 [] c = "9" -> 9 [] c = "A" -> 10 [] c = "B" -> 11
      [] c = "C" -> 12 [] c = "D" -> 13 [] c = "E" -> 14 [] c = "F" -> 15

RECURSIVE ParseHex(_)
ParseHex(digits) ==
    IF digits = <<>> THEN 0
    ELSE 16 * ParseHex(SubSeq(digits, 1, Len(digits) - 1)) + HexVal(digits[Len(digits)])

\* text is "0x" followed by the upper-case hex digits of n, without padding
IsHexOf(text, n) ==
    /\ Len(text) >= 3
    /\ text[1] = "0"
    /\ text[2] = "x"
    /\ \A k \in 3..Len(text) :
           text[k] \in {"0", "1", "2", "3", "4", "5", "6", "7", "8", "9",
                        "A", "B", "C", "D", "E", "F"}
    /\ (Len(text) > 3 => text[3] # "0")
    /\ ParseHex(SubSeq(text, 3, Len(text))) = n

RowsBuilt == pc \in {"sort", "print", "export", "write", "done"} /\ error = "none"
RowsSorted == pc \in {"print", "export", "write", "done"} /\ error = "none"
PrintedRows == SelectSeq(out, LAMBDA line : line.kind = "row")
Exported == disk.exists /\ disk.header # <<>>

\* C1: every record of an identifier up to 0x7FF is Standard with an empty
\* PGN, and every record of a larger identifier (up to 2^29 - 1) is Extended
\* with the PGN "0x" and the upper-case hex digits of (id >> 8) & 0x3FFFF,
\* which is "0x0", not empty, when that value is 0.
C1_Classification ==
    RowsBuilt =>
        \A k \in DOMAIN rows :
            LET r == rows[k]
            IN  (0 <= r.dec /\ r.dec <= 2 ^ 29 - 1) =>
                    /\ r.dec <= 2047 =>
                           r.type = "Standard (11-bit)" /\ r.pgn = <<>>
                    /\ r.dec > 2047 =>
                           /\ r.type = "Extended (29-bit)"
                           /\ IsHexOf(r.pgn, (r.dec \div 256) % 262144)

\* An extended identifier whose PGN is 0 has been classified
C1_Witness ==
    /\ pc = "done"
    /\ Len(rows) = 1
    /\ rows[1].dec = 2 ^ 26 + 255
    /\ rows[1].pgn = <<"0", "x", "0">>

\* The values the container's readable ".ID" channels hold: a channel counts
\* when its name has "." "I" "D" in a row, reading it does not fail and every
\* sample of it converts; a sample counts as its integer part
ObservedIn(channels) ==
    { v \in UNION { {c.samples[k].halves \div 2 : k \in DOMAIN c.samples} : c \in channels } :
        \E c \in channels :
            /\ c.named
            /\ \E p \in 1..(Len(c.name) - 2) :
                   c.name[p] = "." /\ c.name[p + 1] = "I" /\ c.name[p + 2] = "D"
            /\ ~c.get_raises
            /\ \A k \in DOMAIN c.samples : ~c.samples[k].nan
            /\ \E k \in DOMAIN c.samples :
                   2 * v <= c.samples[k].halves /\ c.samples[k].halves < 2 * v + 2 }

Range(s) == {s[k] : k \in DOMAIN s}

AllChannels == UNION { Range(env.groups[g]) : g \in DOMAIN env.groups }

\* The channels the two loops have passed
PassedChannels ==
    UNION { {env.groups[g][k] : k \in {j \in DOMAIN env.groups[g] :
                                          g < group_index \/ j < i}} :
            g \in {h \in DOMAIN env.groups : h <= group_index} }

\* C2: the record list holds exactly one record per distinct integer value of
\* the qualifying channels that were read, and none for any other value.
C2_OneRecordPerValue ==
    RowsBuilt =>
        /\ {rows[k].dec : k \in DOMAIN rows} = ObservedIn(AllChannels)
        /\ \A j, k \in DOMAIN rows : j # k => rows[j].dec # rows[k].dec

\* Values repeated within a channel and across two groups, beside a channel
\* without ".ID": two records
C2_Witness ==
    /\ pc = "done"
    /\ env.groups = << <<Channel(IdName, FALSE, <<Whole(291), Whole(291)>>),
                         Channel(LowerName, FALSE, <<Whole(7)>>)>>,
                       <<Channel(IdeName, FALSE, <<Sample(4097), Whole(291)>>)>> >>
    /\ Len(rows) = 2
    /\ rows[1].dec = 291
    /\ rows[2].dec = 2048

\* C10: a channel whose retrieval or conversion fails adds nothing to the set,
\* not even the samples before the failing one; the scan goes on, and the
\* values of all other qualifying channels are in the set.
C10_BestEffortUnion ==
    /\ pc = "scan" => error = "none" /\ all_ids = ObservedIn(PassedChannels)
    /\ pc \notin {"open", "scan"} /\ error = "none" =>
           all_ids = ObservedIn(AllChannels)
    /\ env.mdf_ok /\ (\A c \in AllChannels : c.named) /\ pc = "done" =>
           error \in {"none", "csv_open", "csv_write"}

\* A channel whose second sample does not convert, between two channels that
\* are read, one before it in its group and one in the next group
C10_Witness ==
    /\ pc = "done"
    /\ env.groups = << <<Channel(IdName, FALSE, <<Whole(291), Whole(291)>>),
                         Channel(IdName, FALSE, <<Whole(5), NaN>>)>>,
                       <<Channel(IdeName, FALSE, <<Sample(4097), Whole(291)>>)>> >>
    /\ all_ids = {291, 2048}

\* a <= b in lexicographic order: a is a prefix of b, or the first character
\* in which they differ is smaller in a
LexLeq(a, b) ==
    \E p \in 0..Len(a) :
        /\ p <= Len(b)
        /\ SubSeq(a, 1, p) = SubSeq(b, 1, p)
        /\ \/ p = Len(a)
           \/ p < Len(b) /\ Ord(a[p + 1]) < Ord(b[p + 1])

\* C3: under the sort key "id", and any key other than "name", the records,
\* as printed and as exported, are in non-decreasing order of decimal id.
C3_SortedById ==
    (RowsSorted /\ args.sort_key # "name") =>
        /\ \A j, k \in DOMAIN rows : j < k => rows[j].dec <= rows[k].dec
        /\ pc \in {"export", "write", "done"} =>
               /\ Len(PrintedRows) = Len(rows)
               /\ \A j, k \in DOMAIN PrintedRows : j < k =>
                      ParseHex(SubSeq(PrintedRows[j].hex, 3, Len(PrintedRows[j].hex)))
                          <= ParseHex(SubSeq(PrintedRows[k].hex, 3, Len(PrintedRows[k].hex)))
        /\ pc = "done" =>
               /\ Len(disk.rows) = Len(rows)
               /\ \A j, k \in DOMAIN disk.rows : j < k => disk.rows[j][2] <= disk.rows[k][2]

\* Three identifiers sorted by a key that is neither "id" nor "name", their
\* names in descending order
C3_Witness ==
    /\ pc = "done"
    /\ args.sort_key = "pgn"
    /\ Len(disk.rows) = 3
    /\ rows[1].name = <<"a">>
    /\ rows[2].name = <<"Z">>
    /\ rows[3].name = <<>>

\* C4: under the sort key "name" the records, as printed and as exported, are
\* in non-decreasing lexicographic order of message name, a record without a
\* name counting as "", so that the unnamed records precede every named one.
C4_SortedByName ==
    (RowsSorted /\ args.sort_key = "name") =>
        /\ \A j, k \in DOMAIN rows : j < k =>
               /\ LexLeq(rows[j].name, rows[k].name)
               /\ rows[k].name = <<>> => rows[j].name = <<>>
        /\ pc \in {"export", "write", "done"} =>
               /\ Len(PrintedRows) = Len(rows)
               /\ \A j, k \in DOMAIN PrintedRows : j < k =>
                      /\ LexLeq(PrintedRows[j].name, PrintedRows[k].name)
                      /\ PrintedRows[k].name = <<>> => PrintedRows[j].name = <<>>
        /\ pc = "done" =>
               /\ Len(disk.rows) = Len(rows)
               /\ \A j, k \in DOMAIN disk.rows : j < k =>
                      /\ LexLeq(disk.rows[j][5], disk.rows[k][5])
                      /\ disk.rows[k][5] = <<>> => disk.rows[j][5] = <<>>

\* An unnamed record of the largest identifier first, then "Z" before "a"
C4_Witness ==
    /\ pc = "done"
    /\ args.sort_key = "name"
    /\ Len(disk.rows) = 3
    /\ rows[1].dec = 419361024 /\ rows[1].name = <<>>
    /\ rows[2].dec = 2048 /\ rows[2].name = <<"Z">>
    /\ rows[3].dec = 291 /\ rows[3].name = <<"a">>

\* The container opens and every channel of it can be enumerated
ContainerReads == env.mdf_ok /\ \A c \in AllChannels : c.named

\* C5: neither a database that fails to load nor a lookup that finds nothing
\* ends the run.  After a failed load every record has the name "" and the
\* identifiers are still all classified, sorted, printed and exported; with a
\* loaded database an id without an entry has the name "" and an id with an
\* entry has the entry's name.
C5_DatabaseNeverAborts ==
    /\ RowsBuilt =>
           \A k \in DOMAIN rows :
               rows[k].name =
                   IF /\ args.dbc_file.some
                      /\ args.dbc_file.val # <<>>
                      /\ env.dbc.ok
                      /\ rows[k].dec \in DOMAIN env.dbc.msgs
                      /\ ~env.dbc.msgs[rows[k].dec].falsy
                   THEN env.dbc.msgs[rows[k].dec].name
                   ELSE <<>>
    /\ error # "dbc"
    /\ (pc = "done" /\ ContainerReads /\ all_ids # {}) =>
           /\ exit = "returned"
           /\ {rows[k].dec : k \in DOMAIN rows} = all_ids
           /\ {ParseHex(SubSeq(PrintedRows[k].hex, 3, Len(PrintedRows[k].hex))) :
                   k \in DOMAIN PrintedRows} = all_ids
           /\ (args.output_csv.some /\ env.csv = "ok") =>
                  {disk.rows[k][2] : k \in DOMAIN disk.rows} = all_ids

\* The database did not load, and three unnamed records were exported
C5_Witness ==
    /\ pc = "done"
    /\ args.dbc_file = Some(DbcPath)
    /\ ~env.dbc.ok
    /\ Len(disk.rows) = 3
    /\ \E k \in DOMAIN out : out[k].kind = "dbc_failed"

\* C6: with an empty identifier set the notice is printed and the function
\* returns: no record is printed, the database is not loaded and no export
\* file is created or written, whether or not an export was asked for.
C6_EmptyResult ==
    (pc \notin {"open", "scan"} /\ error = "none" /\ all_ids = {}) =>
        /\ pc = "done"
        /\ exit = "returned"
        /\ out = <<TextLine("notice")>>
        /\ rows = <<>>
        /\ db = NoDb
        /\ csvfile = "none"
        /\ disk = NoFile

\* A container whose only qualifying channel cannot be read, a database and
\* an export asked for: the notice alone
C6_Witness ==
    /\ pc = "done"
    /\ env.groups = << <<Channel(IdName, TRUE, <<Whole(291)>>)>> >>
    /\ args.dbc_file = Some(DbcPath)
    /\ env.dbc.ok
    /\ args.output_csv = Some(CsvPath)
    /\ env.csv = "ok"
    /\ out = <<TextLine("notice")>>

\* C7: when the container does not open or its enumeration fails, one error
\* line is printed and nothing else, nothing is exported, and the function
\* returns without raising.
C7_ContainerFailure ==
    ~ContainerReads =>
        /\ pc \in {"open", "scan", "done"}
        /\ pc = "done" =>
               /\ error \in {"open", "enumerate"}
               /\ out = <<TextLine("error")>>
               /\ exit = "returned"
               /\ csvfile = "none"
               /\ disk = NoFile
        /\ pc # "done" => out = <<>> /\ exit = "running"

\* The enumeration fails after an identifier was collected, an export asked for
C7_Witness ==
    /\ pc = "done"
    /\ env.mdf_ok
    /\ env.groups = << <<IdChannel({291})>>, <<Unnamed>> >>
    /\ all_ids = {291}
    /\ args.output_csv.some
    /\ error = "enumerate"

\* base is the name p without its directory and its extension
IsStemOf(base, p) ==
    \E a \in 0..Len(p) :
        /\ a = 0 \/ p[a] = "/"
        /\ \A k \in (a + 1)..Len(p) : p[k] # "/"
        /\ LET b == SubSeq(p, a + 1, Len(p))
           IN  \E e \in 0..Len(b) :
                   LET ext == SubSeq(b, e + 1, Len(b))
                   IN  /\ base = SubSeq(b, 1, e)
                       /\ \/ /\ ext = <<>>
                             /\ \A k \in DOMAIN b : b[k] = "." => \A m \in 1..k : b[m] = "."
                          \/ /\ ext # <<>>
                             /\ ext[1] = "."
                             /\ \A k \in 2..Len(ext) : ext[k] # "."
                             /\ \E k \in 1..e : b[k] # "."

\* C8: an export is written exactly when the csv option is given, the
\* identifier set is not empty and no step fails; to the path given, or, the
\* option being without value, to the container's base name without directory
\* and extension followed by "_can_ids.csv"; it holds the header and one row
\* per identifier, in the order of the printed records.
C8_Export ==
    pc = "done" =>
        /\ Exported <=>
               /\ args.output_csv.some
               /\ all_ids # {}
               /\ ContainerReads
               /\ env.csv = "ok"
        /\ Exported =>
               /\ args.output_csv.val # <<>> => disk.path = args.output_csv.val
               /\ args.output_csv.val = <<>> =>
                      \E n \in 0..Len(disk.path) :
                          /\ IsStemOf(SubSeq(disk.path, 1, n), args.mf4_file)
                          /\ SubSeq(disk.path, n + 1, Len(disk.path)) =
                                 <<"_", "c", "a", "n", "_", "i", "d", "s", ".", "c", "s", "v">>
               /\ disk.header = <<"CAN_ID (Hex)", "CAN_ID (Dec)", "Type", "PGN",
                                  "Message Name">>
               /\ Len(disk.rows) = Cardinality(all_ids)
               /\ {disk.rows[k][2] : k \in DOMAIN disk.rows} = all_ids
               /\ Len(PrintedRows) = Len(disk.rows)
               /\ \A k \in DOMAIN disk.rows :
                      /\ disk.rows[k][1] = PrintedRows[k].hex
                      /\ disk.rows[k][3] = PrintedRows[k].type
                      /\ disk.rows[k][4] = PrintedRows[k].pgn
                      /\ disk.rows[k][5] = PrintedRows[k].name
                      /\ IsHexOf(disk.rows[k][1], disk.rows[k][2])
        /\ ~args.output_csv.some => disk = NoFile

\* The option without value and a container in a directory: three rows, sorted
\* by name, in foo_can_ids.csv
C8_Witness ==
    /\ pc = "done"
    /\ args.mf4_file = <<"d", "/", "f", "o", "o", ".", "m", "f", "4">>
    /\ args.output_csv = Some(<<>>)
    /\ args.sort_key = "name"
    /\ disk.path = <<"f", "o", "o", "_", "c", "a", "n", "_", "i", "d", "s", ".", "c", "s", "v">>
    /\ Len(disk.rows) = 3
    /\ disk.rows[2][2] > disk.rows[3][2]

\* C9: when the function has returned, every handle it opened, of the
\* container and of the export file, has been released.
C9_HandlesReleased ==
    pc = "done" => mdf # "open" /\ csvfile # "open"

====
